---------------------------- MODULE Spec2Model ----------------------------
(***************************************************************************)
(* Model of src/final.py: the Pracuj.pl 24h job scraper.                   *)
(*                                                                         *)
(* Strings are sequences of tokens (a token is a character or an opaque    *)
(* piece of text), so that concatenation, strip(), "\n".join() and         *)
(* startswith() are computed rather than assumed.  A Python Optional is a  *)
(* sequence of length at most one: <<>> is None, <<v>> is the value v.     *)
(***************************************************************************)
EXTENDS Integers, Sequences, FiniteSets, TLC

VARIABLES
    pc,          \* position of the request handler scrape()
    limit,       \* query parameter limit: Optional[int]
    engine,      \* the Playwright engine: "none" | "started" | "stopped"
    browser,     \* the browser: "none" | "open" | "closed" | "close_failed"
    job_urls,    \* get_job_links: job_urls, then scrape's job_urls
    page_num,    \* get_job_links: page_num
    links,       \* get_job_links: number of elements in links
    li,          \* get_job_links: position of the for loop in links
    new_links,   \* get_job_links: new_links
    hrefs,       \* history: the href attributes read on the current page
    page_start,  \* history: job_urls when the previous page was finished
    navs,        \* history: the search page numbers given to goto_with_cf
    why,         \* history: the exit get_job_links took
    full_results,\* scrape: full_results
    last_page,   \* history: what the last offer page given to scrape_job did
    response     \* what the handler answers

vars == <<pc, limit, engine, browser, job_urls, page_num, links, li,
          new_links, hrefs, page_start, navs, why, full_results, last_page,
          response>>

-----------------------------------------------------------------------------
(* Bounds of the model *)

NumOffers == 2      \* distinct offer paths the site can show
MaxLinks == 2       \* link elements on one search page
MaxLimit == 2       \* largest limit tried
MaxText == 1        \* characters in one text_content()
MaxItems == 2       \* li/p elements under one section

-----------------------------------------------------------------------------
(* Strings and optionals *)

None == <<>>
Some(v) == <<v>>

Range(s) == {s[i] : i \in 1..Len(s)}

SeqsUpTo(S, n) == UNION {[1..k -> S] : k \in 0..n}

BASE_URL == <<"https://www.pracuj.pl">>

NA == <<"N/A">>

Chars == {" ", "x"}

Texts == SeqsUpTo(Chars, MaxText)

\* str.strip(): leading and trailing whitespace removed
RECURSIVE LStrip(_)
LStrip(t) == IF t # <<>> /\ Head(t) = " " THEN LStrip(Tail(t)) ELSE t

RECURSIVE RStrip(_)
RStrip(t) ==
    IF t # <<>> /\ t[Len(t)] = " " THEN RStrip(SubSeq(t, 1, Len(t) - 1)) ELSE t

strip(t) == RStrip(LStrip(t))

\* "\n".join(lines)
RECURSIVE join(_)
join(lines) ==
    IF lines = <<>> THEN <<>>
    ELSE IF Len(lines) = 1 THEN lines[1]
    ELSE lines[1] \o <<"\n">> \o join(Tail(lines))

-----------------------------------------------------------------------------
(* scrape_job: the page of one offer and the record read from it *)

\* The fixed, ordered field list of scrape_job: key, strategy and selector.
Fields == <<
    [key |-> "Job Title", kind |-> "text", sel |-> "text-positionName"],
    [key |-> "Employer", kind |-> "text", sel |-> "text-employerName"],
    [key |-> "Location", kind |-> "text", sel |-> "text-region"],
    [key |-> "Salary", kind |-> "text", sel |-> "text-pay"],
    [key |-> "Posted Date", kind |-> "text", sel |-> "text-publicationDate"],
    [key |-> "Description", kind |-> "bullets", sel |-> "section-offerDescription"],
    [key |-> "Responsibilities", kind |-> "bullets", sel |-> "section-responsibilities"],
    [key |-> "Requirements", kind |-> "bullets", sel |-> "section-requirements"],
    [key |-> "Benefits", kind |-> "bullets", sel |-> "section-benefits"],
    [key |-> "About Company", kind |-> "bullets", sel |-> "section-about-us"],
    [key |-> "Contract Type", kind |-> "text", sel |-> "sections-benefit-contracts"],
    [key |-> "Employment Type", kind |-> "text", sel |-> "sections-benefit-employment-type-name"],
    [key |-> "Work Schedule", kind |-> "text", sel |-> "sections-benefit-work-schedule"],
    [key |-> "Work Mode (Office)", kind |-> "text", sel |-> "sections-benefit-work-modes-full-office"],
    [key |-> "Work Mode (Hybrid)", kind |-> "text", sel |-> "sections-benefit-work-modes-hybrid"],
    [key |-> "Remote Recruitment", kind |-> "text", sel |-> "sections-benefit-remote-recruitment"],
    [key |-> "Immediate Employment", kind |-> "text", sel |-> "sections-benefit-immediate-employment"],
    [key |-> "Languages", kind |-> "text", sel |-> "required-languages"],
    [key |-> "Eligibility", kind |-> "text", sel |-> "eligibilities"],
    [key |-> "Address", kind |-> "text", sel |-> "text-address"],
    [key |-> "Phone", kind |-> "text", sel |-> "text-phoneNumber"],
    [key |-> "Recruitment Stages", kind |-> "bullets", sel |-> "section-recruitment-stages"],
    [key |-> "Salary by Contract Type", kind |-> "bullets", sel |-> "section-salaryPerContractType"] >>

FieldKeys == {Fields[i].key : i \in 1..Len(Fields)}

Selectors == {Fields[i].sel : i \in 1..Len(Fields)}

\* The message of an exception other than PlaywrightTimeout.
ErrMsg == <<"boom">>

\* What page.query_selector(sel) followed by el.text_content() can do:
\* raise, find no element, or find an element whose text is a string or None.
TextLookups ==
    {[kind |-> "raise"], [kind |-> "absent"]}
        \cup {[kind |-> "el", text |-> t] : t \in {None} \cup {Some(x) : x \in Texts}}

\* What page.query_selector_all("sel li, sel p") followed by text_content()
\* of every item can do: raise, or yield the items' texts (each a string or None).
BulletLookups ==
    {[kind |-> "raise", msg |-> ErrMsg]}
        \cup {[kind |-> "items", items |-> s] :
                s \in SeqsUpTo({None} \cup {Some(x) : x \in Texts}, MaxItems)}

Lookups(f) == IF f.kind = "text" THEN TextLookups ELSE BulletLookups

\* Mutant of safe_text: an exception yields the empty string.
safe_text_empty_on_error(o) ==
    IF o.kind = "raise" THEN <<>>
    ELSE IF o.kind = "absent" THEN NA
    ELSE IF o.text = None THEN <<>>
    ELSE strip(o.text[1])

\* safe_text(selector): the bare except turns every exception into "N/A",
\* the AttributeError of None.strip() included.
safe_text(o) ==
    IF o.kind = "raise" THEN NA
    ELSE IF o.kind = "absent" THEN NA
    ELSE IF o.text = None THEN NA
    ELSE strip(o.text[1])

\* texts = [((await i.text_content()) or "").strip() for i in items]
bullet_texts(items) ==
    [i \in 1..Len(items) |-> strip(IF items[i] = None THEN <<>> ELSE items[i][1])]

NonEmpty(t) == t # <<>>

\* extract_bullets(section_selector), for a lookup that does not raise
extract_bullets(o) ==
    LET texts == bullet_texts(o.items)
    IN  IF texts # <<>> THEN join(SelectSeq(texts, NonEmpty)) ELSE NA

\* The field assignments of scrape_job from field i on; an exception leaving
\* extract_bullets ends them in the except clause of scrape_job.
RECURSIVE fill_fields(_, _, _)
fill_fields(job, dom, i) ==
    IF i > Len(Fields) THEN job
    ELSE LET f == Fields[i]
             o == dom[f.sel]
         IN  IF f.kind = "text"
             THEN fill_fields(job @@ (f.key :> safe_text(o)), dom, i + 1)
             ELSE IF o.kind = "raise"
             THEN job @@ ("Error" :> o.msg)
             ELSE fill_fields(job @@ (f.key :> extract_bullets(o)), dom, i + 1)

\* Mutant of scrape_job: a timeout is recorded but the fields are still read.
scrape_job_no_return(url, now, nav, dom) ==
    LET job == ("URL" :> url) @@ ("Scraped At" :> now)
    IN  IF nav = "timeout" THEN fill_fields(job @@ ("Error" :> <<"Timeout">>), dom, 1)
        ELSE IF nav = "error" THEN job @@ ("Error" :> ErrMsg)
        ELSE fill_fields(job, dom, 1)

\* scrape_job(page, url).  nav is what goto_with_cf did: "ok" (True),
\* "timeout" (False) or "error" (an exception other than PlaywrightTimeout).
scrape_job(url, now, nav, dom) ==
    LET job == ("URL" :> url) @@ ("Scraped At" :> now)
    IN  IF nav = "timeout" THEN job @@ ("Error" :> <<"Timeout">>)
        ELSE IF nav = "error" THEN job @@ ("Error" :> ErrMsg)
        ELSE fill_fields(job, dom, 1)

NavOutcomes == {"ok", "timeout", "error"}

Timestamps == {<<"2024-01-01 12:00:00">>}

\* Offer pages: every lookup of the page behaves the same way ...
AllAbsent ==
    [s \in Selectors |->
        IF \E i \in 1..Len(Fields) : Fields[i].sel = s /\ Fields[i].kind = "text"
        THEN [kind |-> "absent"]
        ELSE [kind |-> "items", items |-> <<>>]]

AllText ==
    [s \in Selectors |->
        IF \E i \in 1..Len(Fields) : Fields[i].sel = s /\ Fields[i].kind = "text"
        THEN [kind |-> "el", text |-> Some(<<"x">>)]
        ELSE [kind |-> "items", items |-> <<Some(<<"x">>)>>]]

AllRaise ==
    [s \in Selectors |->
        IF \E i \in 1..Len(Fields) : Fields[i].sel = s /\ Fields[i].kind = "text"
        THEN [kind |-> "raise"]
        ELSE [kind |-> "raise", msg |-> ErrMsg]]

BasePages == {AllAbsent, AllText, AllRaise}

\* ... except for one selector, which does anything a lookup can do.
OfferPages ==
    {[b EXCEPT ![Fields[i].sel] = o] :
        <<b, i, o>> \in {<<b, i, o>> \in BasePages \X (1..Len(Fields)) \X (TextLookups \cup BulletLookups) :
                            o \in Lookups(Fields[i])}}

\* The offer pages the whole-request specification draws from.
SamplePages ==
    {AllAbsent, AllText, [AllText EXCEPT !["section-requirements"] = [kind |-> "raise", msg |-> ErrMsg]]}

-----------------------------------------------------------------------------
(* get_job_links *)

OfferPaths == <<"/praca/a,oferta,1", "/praca/b,oferta,2", "/praca/c,oferta,3",
                "/praca/d,oferta,4", "/praca/e,oferta,5">>

Offers == {<<OfferPaths[n]>> : n \in 1..NumOffers}

\* The href attribute of a link element: None, "", a path relative to the
\* site, or an absolute URL (which starts with "http").
Hrefs ==
    {None, Some(<<>>)} \cup {Some(o) : o \in Offers}
        \cup {Some(BASE_URL \o o) : o \in Offers}

\* if href:
Truthy(href) == href # None /\ href[1] # <<>>

\* href.startswith("http")
StartsWithHttp(h) == h # <<>> /\ h[1] = BASE_URL[1]

\* full_url = href if href.startswith("http") else urljoin(BASE_URL, href)
FullUrl(h) == IF StartsWithHttp(h) THEN h ELSE BASE_URL \o h

Limits == {None} \cup {Some(k) : k \in (0 - 1)..MaxLimit}

\* Mutant of LimitIsNonPositive: only a negative limit returns at once.
LimitIsNegative(l) == l # None /\ l[1] < 0

\* limit is not None and limit <= 0
LimitIsNonPositive(l) == l # None /\ l[1] <= 0

\* Mutant of LimitReached: the list is returned one link too late.
LimitExceeded(l, urls) == l # None /\ Len(urls) > l[1]

\* limit is not None and len(job_urls) >= limit
LimitReached(l, urls) == l # None /\ Len(urls) >= l[1]

\* Mutant of NotSeen: only the last URL appended is compared.
NotLast(u, urls) == urls = <<>> \/ urls[Len(urls)] # u

\* full_url not in job_urls
NotSeen(u, urls) == u \notin Range(urls)

NoPage == [nav |-> "none"]

Init ==
    /\ pc = "start"
    /\ limit \in Limits
    /\ engine = "none"
    /\ browser = "none"
    /\ job_urls = <<>>
    /\ page_num = 1
    /\ links = 0
    /\ li = 1
    /\ new_links = 0
    /\ hrefs = <<>>
    /\ page_start = <<>>
    /\ navs = <<>>
    /\ why = "running"
    /\ full_results = <<>>
    /\ last_page = NoPage
    /\ response = "none"

\* start_browser: async_playwright().start(), chromium.launch(), then
\* new_context/add_init_script/new_page; any of the three can raise, and the
\* call is outside the try of scrape.
StartBrowser ==
    /\ pc = "start"
    /\ \E outcome \in {"start_raises", "launch_raises", "context_raises", "ok"} :
        /\ engine' = IF outcome = "start_raises" THEN "none" ELSE "started"
        /\ browser' = IF outcome \in {"context_raises", "ok"} THEN "open" ELSE "none"
        /\ pc' = IF outcome = "ok" THEN "get_job_links" ELSE "done"
        /\ response' = IF outcome = "ok" THEN "none" ELSE "error"
    /\ UNCHANGED <<limit, job_urls, page_num, links, li, new_links, hrefs,
                   page_start, navs, why, full_results, last_page>>

\* get_job_links, up to the while loop
GetJobLinksEntry ==
    /\ pc = "get_job_links"
    /\ job_urls' = <<>>
    /\ page_num' = 1
    /\ IF LimitIsNonPositive(limit)
       THEN pc' = "return" /\ why' = "limit<=0"
       ELSE pc' = "load" /\ why' = why
    /\ UNCHANGED <<limit, engine, browser, links, li, new_links, hrefs,
                   page_start, navs, full_results, last_page, response>>

\* Mutant of LoadPageTimeout: a timeout loses what was gathered.
LoadPageTimeoutDropsAll ==
    /\ pc = "load"
    /\ navs' = Append(navs, page_num)
    /\ job_urls' = <<>>
    /\ pc' = "return"
    /\ why' = "timeout"
    /\ UNCHANGED <<limit, engine, browser, page_num, links, li, new_links,
                   hrefs, page_start, full_results, last_page, response>>

\* goto_with_cf returns False: break, then return job_urls
LoadPageTimeout ==
    /\ pc = "load"
    /\ navs' = Append(navs, page_num)
    /\ pc' = "return"
    /\ why' = "timeout"
    /\ UNCHANGED <<limit, engine, browser, job_urls, page_num, links, li,
                   new_links, hrefs, page_start, full_results, last_page,
                   response>>

\* An exception other than PlaywrightTimeout in goto_with_cf, accept_cookies or
\* the selector calls leaves get_job_links and reaches the finally of scrape.
LoadPageError ==
    /\ pc = "load"
    /\ navs' = Append(navs, page_num)
    /\ pc' = "finally"
    /\ why' = "exception"
    /\ response' = "error"
    /\ UNCHANGED <<limit, engine, browser, job_urls, page_num, links, li,
                   new_links, hrefs, page_start, full_results, last_page>>

\* The page loads, but wait_for_selector times out or links is empty: break
LoadPageNoLinks ==
    /\ pc = "load"
    /\ navs' = Append(navs, page_num)
    /\ pc' = "return"
    /\ why' = "no links"
    /\ UNCHANGED <<limit, engine, browser, job_urls, page_num, links, li,
                   new_links, hrefs, page_start, full_results, last_page,
                   response>>

\* The page loads and has link elements: new_links = 0, the for loop starts
LoadPageLinks ==
    /\ pc = "load"
    /\ navs' = Append(navs, page_num)
    /\ \E n \in 1..MaxLinks : links' = n
    /\ li' = 1
    /\ new_links' = 0
    /\ hrefs' = <<>>
    /\ pc' = "scan"
    /\ UNCHANGED <<limit, engine, browser, job_urls, page_num, page_start,
                   why, full_results, last_page, response>>

\* One iteration of "for link in links"
ScanLink ==
    /\ pc = "scan"
    /\ li <= links
    /\ \E href \in Hrefs :
        /\ hrefs' = Append(hrefs, href)
        /\ IF Truthy(href) /\ NotSeen(FullUrl(href[1]), job_urls)
           THEN /\ job_urls' = Append(job_urls, FullUrl(href[1]))
                /\ new_links' = new_links + 1
                /\ IF LimitReached(limit, job_urls')
                   THEN pc' = "return" /\ why' = "limit" /\ li' = li
                   ELSE pc' = "scan" /\ why' = why /\ li' = li + 1
           ELSE /\ li' = li + 1
                /\ UNCHANGED <<job_urls, new_links, pc, why>>
    /\ UNCHANGED <<limit, engine, browser, page_num, links, page_start, navs,
                   full_results, last_page, response>>

\* Mutant of EndOfPage: the new_links == 0 check is missing.
EndOfPageAlwaysContinues ==
    /\ pc = "scan"
    /\ li > links
    /\ pc' = "load"
    /\ page_num' = page_num + 1
    /\ page_start' = job_urls
    /\ hrefs' = <<>>
    /\ UNCHANGED <<limit, engine, browser, job_urls, links, li, new_links,
                   navs, why, full_results, last_page, response>>

\* After the for loop: break when the page gave nothing new, else page_num += 1
EndOfPage ==
    /\ pc = "scan"
    /\ li > links
    /\ IF new_links = 0
       THEN pc' = "return" /\ why' = "no new links" /\ page_num' = page_num
       ELSE pc' = "load" /\ why' = why /\ page_num' = page_num + 1
    /\ page_start' = job_urls
    /\ hrefs' = <<>>
    /\ UNCHANGED <<limit, engine, browser, job_urls, links, li, new_links,
                   navs, full_results, last_page, response>>

\* job_urls = await get_job_links(...): the locals of get_job_links are gone
GetJobLinksReturn ==
    /\ pc = "return"
    /\ pc' = "jobs"
    /\ page_num' = 1
    /\ links' = 0
    /\ li' = 1
    /\ new_links' = 0
    /\ hrefs' = <<>>
    /\ page_start' = <<>>
    /\ UNCHANGED <<limit, engine, browser, job_urls, navs, why, full_results,
                   last_page, response>>

-----------------------------------------------------------------------------
(* scrape: the loop over job_urls, the response and the finally clause *)

\* Mutant of LimitPassed: the redundant check stops one job early.
LimitPassedEarly(l, idx) == l # None /\ idx >= l[1]

\* limit is not None and idx > limit
LimitPassed(l, idx) == l # None /\ idx > l[1]

\* One iteration of "for idx, url in enumerate(job_urls, start=1)" that
\* reaches scrape_job, on an offer page drawn from pages.
ScrapeNext(pages) ==
    /\ pc = "jobs"
    /\ Len(full_results) < Len(job_urls)
    /\ LET idx == Len(full_results) + 1
       IN  /\ ~LimitPassed(limit, idx)
           /\ \E now \in Timestamps, nav \in NavOutcomes, dom \in pages :
                /\ full_results' =
                      Append(full_results, scrape_job(job_urls[idx], now, nav, dom))
                /\ last_page' = [nav |-> nav, dom |-> dom]
    /\ UNCHANGED <<pc, limit, engine, browser, job_urls, page_num, links, li,
                   new_links, hrefs, page_start, navs, why, response>>

\* The for loop ends: job_urls is exhausted, or the idx > limit check breaks
ScrapeLoopExit ==
    /\ pc = "jobs"
    /\ \/ Len(full_results) >= Len(job_urls)
       \/ LimitPassed(limit, Len(full_results) + 1)
    /\ pc' = "respond"
    /\ UNCHANGED <<limit, engine, browser, job_urls, page_num, links, li,
                   new_links, hrefs, page_start, navs, why, full_results,
                   last_page, response>>

\* The response: a JSONResponse, or with excel the file of save_to_excel,
\* which can raise while writing
Respond ==
    /\ pc = "respond"
    /\ \E excel \in BOOLEAN, written \in BOOLEAN :
        response' = IF ~excel THEN "json" ELSE IF written THEN "excel" ELSE "error"
    /\ pc' = "finally"
    /\ UNCHANGED <<limit, engine, browser, job_urls, page_num, links, li,
                   new_links, hrefs, page_start, navs, why, full_results,
                   last_page>>

\* finally: await browser.close(); when it raises, playwright.stop() is skipped
CloseBrowser ==
    /\ pc = "finally"
    /\ \E closes \in BOOLEAN :
        IF closes
        THEN browser' = "closed" /\ pc' = "stop" /\ response' = response
        ELSE browser' = "close_failed" /\ pc' = "done" /\ response' = "error"
    /\ UNCHANGED <<limit, engine, job_urls, page_num, links, li, new_links,
                   hrefs, page_start, navs, why, full_results, last_page>>

\* finally: await playwright.stop()
StopEngine ==
    /\ pc = "stop"
    /\ engine' = "stopped"
    /\ pc' = "done"
    /\ UNCHANGED <<limit, browser, job_urls, page_num, links, li, new_links,
                   hrefs, page_start, navs, why, full_results, last_page,
                   response>>

ScrapeSample == ScrapeNext(SamplePages)

Next ==
    \/ StartBrowser
    \/ GetJobLinksEntry
    \/ LoadPageTimeout
    \/ LoadPageError
    \/ LoadPageNoLinks
    \/ LoadPageLinks
    \/ ScanLink
    \/ EndOfPage
    \/ GetJobLinksReturn
    \/ ScrapeSample
    \/ ScrapeLoopExit
    \/ Respond
    \/ CloseBrowser
    \/ StopEngine

\* One request, from the query parameters to the end of the handler.
Spec == Init /\ [][Next]_vars

\* The same request; every step of the handler is eventually taken (the event
\* loop runs the one coroutine there is, and every await completes).
FairSpec == Spec /\ WF_vars(Next)

-----------------------------------------------------------------------------
(* The extraction of one offer, on every offer page of OfferPages *)

\* The handler after get_job_links returned one URL because of limit = 1.
InitJob ==
    /\ pc = "jobs"
    /\ limit = Some(1)
    /\ engine = "started"
    /\ browser = "open"
    /\ job_urls = <<FullUrl(<<OfferPaths[1]>>)>>
    /\ page_num = 1
    /\ links = 0
    /\ li = 1
    /\ new_links = 0
    /\ hrefs = <<>>
    /\ page_start = <<>>
    /\ navs = <<1>>
    /\ why = "limit"
    /\ full_results = <<>>
    /\ last_page = NoPage
    /\ response = "none"

ScrapeOffer == ScrapeNext(OfferPages)

NextJob ==
    \/ ScrapeOffer
    \/ ScrapeLoopExit
    \/ Respond
    \/ CloseBrowser
    \/ StopEngine

SpecJob == InitJob /\ [][NextJob]_vars

\* InitJob is a state of a whole request.
InitJobNotReached == ~InitJob

-----------------------------------------------------------------------------
(* Properties *)

\* s with every element that occurred earlier in s removed
RECURSIVE FirstOcc(_)
FirstOcc(s) ==
    IF s = <<>> THEN <<>>
    ELSE LET front == SubSeq(s, 1, Len(s) - 1)
         IN  IF s[Len(s)] \in Range(front) THEN FirstOcc(front)
             ELSE Append(FirstOcc(front), s[Len(s)])

\* The URLs of the links read so far: those of the finished pages, then the
\* absolute URL of every link of the current page that has an href.
Encountered ==
    LET withHref == SelectSeq(hrefs, Truthy)
    IN  page_start \o [i \in 1..Len(withHref) |-> FullUrl(withHref[i][1])]

InGetJobLinks == pc \in {"load", "scan", "return"}

LastResult == full_results[Len(full_results)]

\* C1: with limit = k > 0, get_job_links never holds more than k URLs, goes on
\* only while it holds fewer, and returns at the link that gives the k-th: the
\* result is the first k distinct URLs in encounter order, the links after
\* that one are not read and no further page is loaded.
C1_StopsAtLimit ==
    (limit # None /\ limit[1] > 0) =>
        /\ Len(job_urls) <= limit[1]
        /\ pc \in {"load", "scan"} => Len(job_urls) < limit[1]
        /\ (pc = "return" /\ Len(job_urls) = limit[1]) => why = "limit"
        /\ (pc = "return" /\ why = "limit") =>
              /\ Len(job_urls) = limit[1]
              /\ job_urls = FirstOcc(Encountered)
              /\ hrefs # <<>>
              /\ Len(hrefs) = li
              /\ li <= links
              /\ Truthy(hrefs[li])
              /\ FullUrl(hrefs[li][1]) = job_urls[limit[1]]
              /\ Len(navs) = page_num
              /\ navs[Len(navs)] = page_num

\* The limit is reached in the middle of the second page.
C1_Witness ==
    /\ pc = "return"
    /\ why = "limit"
    /\ limit = Some(2)
    /\ page_num = 2
    /\ li < links
    /\ Len(page_start) = 1

\* C2: with a limit <= 0, get_job_links returns the empty sequence and no
\* search page is ever navigated to.
C2_NoNavigation ==
    (limit # None /\ limit[1] <= 0) =>
        /\ navs = <<>>
        /\ job_urls = <<>>
        /\ pc \notin {"load", "scan"}
        /\ pc = "return" => why = "limit<=0"
        /\ pc \in {"jobs", "respond"} => why = "limit<=0"

C2_Witness ==
    /\ pc = "jobs"
    /\ limit = Some(0)
    /\ why = "limit<=0"

\* C3: job_urls never holds a URL twice, and it is the URLs read so far in
\* the order of their first occurrence: what earlier pages gave stays in
\* front, unmoved.
C3_UniqueInOrder ==
    /\ \A i, j \in 1..Len(job_urls) : i # j => job_urls[i] # job_urls[j]
    /\ InGetJobLinks =>
          /\ job_urls = FirstOcc(Encountered)
          /\ Len(page_start) <= Len(job_urls)
          /\ SubSeq(job_urls, 1, Len(page_start)) = page_start

\* A URL of an earlier page is read again on the second page, after a new one.
C3_Witness ==
    /\ pc = "scan"
    /\ page_num = 2
    /\ Len(job_urls) > Len(page_start)
    /\ hrefs # <<>>
    /\ Truthy(hrefs[Len(hrefs)])
    /\ FullUrl(hrefs[Len(hrefs)][1]) \in Range(page_start)

\* C4: when the load of search page n times out, get_job_links returns,
\* without an exception, the URLs it held when page n-1 was finished (none
\* when n = 1), and page n is the last page loaded.
C4_TimeoutKeepsPrior ==
    (pc = "return" /\ why = "timeout") =>
        /\ job_urls = page_start
        /\ page_num = 1 => job_urls = <<>>
        /\ hrefs = <<>>
        /\ response = "none"
        /\ Len(navs) = page_num
        /\ navs[Len(navs)] = page_num

C4_Witness ==
    /\ pc = "return"
    /\ why = "timeout"
    /\ page_num = 2
    /\ Len(job_urls) = 2

BulletFields == {i \in 1..Len(Fields) : Fields[i].kind = "bullets"}

TextFields == {i \in 1..Len(Fields) : Fields[i].kind = "text"}

\* The lines of a section that are not empty after trimming
Surviving(items) ==
    SelectSeq([i \in 1..Len(items) |->
                  IF items[i] = None THEN <<>> ELSE strip(items[i][1])], NonEmpty)

\* C6: a multi-value field is "N/A" whenever no non-empty line survives, also
\* when the section has li/p elements that are all empty after trimming, and
\* is otherwise the surviving lines joined by newline.
C6_BulletsValue ==
    (full_results # <<>> /\ last_page.nav = "ok") =>
        \A i \in BulletFields :
            Fields[i].key \in DOMAIN LastResult =>
                LET lines == Surviving(last_page.dom[Fields[i].sel].items)
                IN  LastResult[Fields[i].key] =
                        IF lines = <<>> THEN NA ELSE join(lines)

\* The lookups of the fields before field i that raise out of extract_bullets
RaisingBullets(dom) == {i \in BulletFields : dom[Fields[i].sel].kind = "raise"}

FailingTexts(dom) ==
    {i \in TextFields :
        \/ dom[Fields[i].sel].kind = "raise"
        \/ dom[Fields[i].sel].kind = "el" /\ dom[Fields[i].sel].text = None}

\* C7 as stated: a failure in any one field, single-value or multi-value,
\* gives that field "N/A", adds no "Error" key, and every later field is
\* still populated.
C7_EveryFailureSwallowed ==
    (full_results # <<>> /\ last_page.nav = "ok") =>
        /\ "Error" \notin DOMAIN LastResult
        /\ FieldKeys \subseteq DOMAIN LastResult
        /\ \A i \in RaisingBullets(last_page.dom) \cup FailingTexts(last_page.dom) :
              LastResult[Fields[i].key] = NA

\* C7 as amended: a failure in a single-value field gives that field "N/A",
\* adds no "Error" key and does not stop the later fields; a failure in a
\* multi-value field ends the extraction: the record keeps the fields before
\* it and gets "Error" with the exception's message.
C7_TextFailureSwallowed ==
    (full_results # <<>> /\ last_page.nav = "ok") =>
        LET dom == last_page.dom
            bad == RaisingBullets(dom)
            stop == IF bad = {} THEN Len(Fields) + 1
                    ELSE CHOOSE m \in bad : \A n \in bad : m <= n
            read == {Fields[i].key : i \in 1..(stop - 1)}
        IN  /\ \A i \in FailingTexts(dom) :
                  i < stop => LastResult[Fields[i].key] = NA
            /\ bad = {} =>
                  /\ "Error" \notin DOMAIN LastResult
                  /\ DOMAIN LastResult = {"URL", "Scraped At"} \cup FieldKeys
            /\ bad # {} =>
                  /\ DOMAIN LastResult = {"URL", "Scraped At", "Error"} \cup read
                  /\ LastResult["Error"] = dom[Fields[stop].sel].msg

\* The lookup of one single-value field raises on a page whose other fields
\* all have text: the field is "N/A" and the last field is populated.
C7_Witness ==
    /\ full_results # <<>>
    /\ last_page.nav = "ok"
    /\ last_page.dom = [AllText EXCEPT !["text-pay"] = [kind |-> "raise"]]
    /\ LastResult["Salary"] = NA
    /\ LastResult["Salary by Contract Type"] = <<"x">>
    /\ "Error" \notin DOMAIN LastResult

\* C8: a handler that started the engine ends with the engine stopped and
\* the browser not left open, whatever the exit path.
C8_TornDown ==
    (pc = "done" /\ engine # "none") =>
        /\ engine = "stopped"
        /\ browser # "open"

\* C9: scrape_job is called once for every URL of job_urls, in order: the
\* records so far carry the URLs of a prefix of job_urls, after the loop there
\* is one record per URL, and a job whose page did not load is a record with
\* an "Error" key.
C9_OneRecordPerUrl ==
    /\ Len(full_results) <= Len(job_urls)
    /\ \A i \in 1..Len(full_results) : full_results[i]["URL"] = job_urls[i]
    /\ pc = "respond" => Len(full_results) = Len(job_urls)
    /\ (pc \in {"finally", "stop", "done"} /\ why \notin {"running", "exception"}) =>
          Len(full_results) = Len(job_urls)
    /\ (full_results # <<>> /\ last_page.nav # "ok") => "Error" \in DOMAIN LastResult

\* Two URLs under limit 2, the first job failed and the second did not.
C9_Witness ==
    /\ pc = "respond"
    /\ limit = Some(2)
    /\ Len(full_results) = 2
    /\ "Error" \in DOMAIN full_results[1]
    /\ "Error" \notin DOMAIN full_results[2]

C10_Bound ==
    limit = None =>
        /\ navs = [i \in 1..Len(navs) |-> i]
        /\ Len(navs) <= Len(job_urls) + 1
        /\ Len(navs) <= NumOffers + 1
        /\ pc = "load" => (page_num = Len(navs) + 1 /\ Len(job_urls) >= Len(navs))
        /\ pc = "scan" => page_num = Len(navs)

\* C10: with no limit, the search pages loaded are pages 1, 2, 3, ... in
\* order, never more than one more than the URLs held and so at most N+1 for
\* N distinct URLs, and the request comes to its end.
C10_Terminates ==
    /\ []C10_Bound
    /\ (limit = None) => <>(pc = "done")

\* All N URLs were found one page at a time, and page N+1 was loaded.
C10_Witness ==
    /\ limit = None
    /\ pc = "return"
    /\ Len(navs) = NumOffers + 1
    /\ Len(job_urls) = NumOffers

=============================================================================
